---- MODULE Spec2Model ----
(***************************************************************************)
(* A model of md2doc.py: the python-docx fallback renderer (the walk over  *)
(* the markdown-it token stream), the style applier _apply_doc_defaults,   *)
(* the configuration loader and the main workflow.                         *)
(*                                                                         *)
(* Text is a sequence of one-character strings, so that concatenation,     *)
(* indentation and rstrip are computed and not assumed.  The cursor i and  *)
(* all token indices are 0-based as in the source; At(toks, k) reads       *)
(* tokens[k].                                                              *)
(***************************************************************************)
EXTENDS Integers, Sequences, FiniteSets, TLC

VARIABLES
    tokens,      \* fallback: the list md.parse returned
    ctx,         \* the parser's stack of open containers while it emits tokens
    i,           \* fallback: the cursor of the while loop
    list_stack,  \* fallback: list_stack
    doc,         \* the python-docx Document: section, styles, header, body
    pc,          \* where the modelled code stands
    fault,       \* TRUE once a step did what raises in Python
    last,        \* the iteration of the walk that ran last (history)
    cfg,         \* the style configuration handed to _apply_doc_defaults
    header_text, \* the --header text handed to _apply_doc_defaults
    applied,     \* how often _apply_doc_defaults has run
    WD_ALIGN_PARAGRAPH, \* the __dict__ of the installed class, on the names
                 \* a style sheet asks for (AlignNames)
    env,         \* main: the files and tools the run finds
    steps,       \* main: the calls made so far, in order
    exit_code,   \* main: the value main returned
    locals       \* main: out_ext, ok and whether reference.docx exists

vars == <<tokens, ctx, i, list_stack, doc, pc, fault, last, cfg, header_text,
          applied, WD_ALIGN_PARAGRAPH, env, steps, exit_code, locals>>

styleVars == <<cfg, header_text, applied>>
mainVars == <<WD_ALIGN_PARAGRAPH, env, steps, exit_code, locals>>

----------------------------------------------------------------------------
(* Bounds of the model.                                                    *)

MaxTokens == 10
MaxLeaves == 2
MaxSpans == 3
MaxCodeLen == 4
MaxFields == 2
MaxApplies == 2
MaxAny == 3

----------------------------------------------------------------------------
(* Text.                                                                   *)

NL == "\n"

\* the characters U+2022 (the bullet of line 258) and U+2014 (the dash of
\* line 288), each one character of a text
BulletChar == "U+2022"
EmDash == "U+2014"

RECURSIVE Concat(_)
\* "".join(parts)
Concat(parts) ==
    IF parts = <<>> THEN <<>> ELSE Head(parts) \o Concat(Tail(parts))

RECURSIVE Repeat(_, _)
\* s * n of Python: the empty string when n <= 0
Repeat(s, n) == IF n <= 0 THEN <<>> ELSE s \o Repeat(s, n - 1)

Front(s) == SubSeq(s, 1, Len(s) - 1)

\* one trailing "\n" removed
StripOneNL(s) == IF s # <<>> /\ s[Len(s)] = NL THEN Front(s) ELSE s

RECURSIVE RstripNL(_)
\* str.rstrip("\n"): every trailing "\n" is removed
RstripNL(s) ==
    IF s # <<>> /\ s[Len(s)] = NL THEN RstripNL(Front(s)) ELSE s

Letters == <<"a", "b", "c", "d", "e", "f", "g", "h", "k", "m", "n", "p">>

----------------------------------------------------------------------------
(* Tokens of markdown-it: type, tag, content, children.                    *)
(* children = None is modelled as <<>>: the code only tests its truth.     *)

Span(type, content) == [type |-> type, content |-> content]

Tok(type, tag, content, children) ==
    [type |-> type, tag |-> tag, content |-> content, children |-> children]

Plain(type) == Tok(type, <<>>, <<>>, <<>>)

InlineTok(content, children) == Tok("inline", <<>>, content, children)

TextInline(text) == InlineTok(text, <<Span("text", text)>>)

HeadingTag(level) == <<"h", <<"1", "2", "3", "4", "5", "6">>[level]>>

At(toks, k) == toks[k + 1]

----------------------------------------------------------------------------
(* Python values the style code handles.                                   *)

\* Optional[str]: None, or a string (possibly empty)
NoneStr == [given |-> FALSE, text |-> <<>>]
SomeStr(s) == [given |-> TRUE, text |-> s]
\* the truth value Python gives an Optional[str]
Truthy(o) == o.given /\ o.text # <<>>
\* a or b, on Optional[str]
OrElse(a, b) == IF Truthy(a) THEN a ELSE b

\* Optional[Dict]: None, or a dict (a function on its keys)
EmptyDict == <<>>
NoneCfg == [none |-> TRUE, dict |-> EmptyDict]
SomeCfg(d) == [none |-> FALSE, dict |-> d]

\* d.get(k, default)
Get(d, k, default) == IF k \in DOMAIN d THEN d[k] ELSE default

\* d.get("text"): None when the key is missing
GetText(d) == IF "text" \in DOMAIN d THEN SomeStr(d["text"]) ELSE NoneStr

\* docx.shared.Mm and Pt: a length in EMU
Mm(x) == x * 36000
Pt(x) == x * 12700

\* the member names of WD_ALIGN_PARAGRAPH; a member is written by its name
AlignMembers ==
    {"LEFT", "CENTER", "RIGHT", "JUSTIFY", "DISTRIBUTE", "JUSTIFY_MED",
     "JUSTIFY_HI", "JUSTIFY_LOW", "THAI_JUSTIFY"}

\* the names a style sheet of the model gives as an alignment: the member
\* names, a name in lower case, and names of class attributes
AlignNames ==
    AlignMembers \cup {"right", "__module__", "_member_map_", "__members__"}

\* The code reads the class only through __dict__.get(name, default), and
\* what __dict__ holds depends on the python-docx and the Python installed.
\* Each definition below is the __dict__ of one kind of installation
\* restricted to AlignNames; entries under other names are never read.  A
\* member is written by its name, any other object by a text in angle
\* brackets.  No __dict__ has an entry "right".

\* the members: the metaclass of python-docx 0.8 and the enum module both
\* put every member into the class dictionary
MemberEntries == [m \in AlignMembers |-> m]

\* python-docx 1.x: the class is an enum.Enum, which also keeps the members
\* in _member_map_
EnumEntries ==
    MemberEntries @@ ("__module__" :> "docx.enum.text")
    @@ ("_member_map_" :> "<dict _member_map_>")

\* python-docx 0.8: the class body names __members__, and the metaclass
\* adds every member to the class dictionary; it is no enum.Enum
MetaEntries ==
    MemberEntries @@ ("__module__" :> "docx.enum.text")
    @@ ("__members__" :> "<tuple __members__>")

\* the class dictionaries a run can find
AlignClasses == {EnumEntries, MetaEntries}

\* WD_ALIGN_PARAGRAPH.__dict__.get(name, default): the object the class
\* dictionary holds under the name, else the default
AlignLookup(name, default) ==
    IF name \in DOMAIN WD_ALIGN_PARAGRAPH THEN WD_ALIGN_PARAGRAPH[name]
    ELSE default

----------------------------------------------------------------------------
(* The Document.  Document() is python-docx's default template: US Letter, *)
(* 1in / 1.25in margins, an empty header and footer, no body; the values   *)
(* the template gives the styles are all overwritten by the code and are   *)
(* written here as unset (name "None", length 0, alignment "None").        *)

NoFont == "None"

HeadingNames == {"Heading 1", "Heading 2", "Heading 3"}

UnsetHeading ==
    [name |-> NoFont, size |-> 0, alignment |-> "None",
     space_before |-> 0, space_after |-> 0]

Document ==
    [section |-> [page_width |-> 7772400, page_height |-> 10058400,
                  top_margin |-> 914400, bottom_margin |-> 914400,
                  left_margin |-> 1143000, right_margin |-> 1143000],
     normal |-> [size |-> 0, ascii |-> NoFont, hAnsi |-> NoFont,
                 eastAsia |-> NoFont, line_spacing |-> 0],
     headings |-> [h \in HeadingNames |-> UnsetHeading],
     header |-> <<>>,
     body |-> <<>>]

Run(text, name, size) == [text |-> text, name |-> name, size |-> size]

\* p.add_run(text) on a body paragraph, run.font.name = name
BodyRun(text, name) == Run(text, name, 0)

Para(style, runs, line_spacing) ==
    [style |-> style, runs |-> runs, line_spacing |-> line_spacing]

\* doc.add_paragraph(text, style): python-docx adds a run only for a
\* non-empty text
AddParagraph(text, style) ==
    Para(style, IF text = <<>> THEN <<>> ELSE <<BodyRun(text, NoFont)>>, 0)

ParaText(p) == Concat([k \in 1..Len(p.runs) |-> p.runs[k].text])

\* the default values of _apply_doc_defaults
DefaultSizeOf(name) ==
    CASE name = "Heading 1" -> 16
      [] name = "Heading 2" -> 14
      [] OTHER -> 12

DefaultAlignOf(name) == IF name = "Heading 1" THEN "CENTER" ELSE "LEFT"

\* the third argument of a call of cfg_heading, lines 95, 98, 101
AlignOf(headings, name) ==
    AlignLookup(Get(Get(headings, name, EmptyDict), "align",
                    DefaultAlignOf(name)),
                DefaultAlignOf(name))

\* line 90: paragraph_format.alignment = align.  The setter of python-docx
\* takes a member (or None) and raises for any other object
SetterRaises(align) == align \notin AlignMembers

\* cfg_heading(name, size_pt, align, family) on the style st, with the
\* arguments the three calls pass; when line 90 raises, lines 87-88 have
\* run and lines 91-92 have not
CfgHeading(st, headings, name) ==
    LET h == Get(headings, name, EmptyDict) IN
    IF SetterRaises(AlignOf(headings, name))
    THEN [st EXCEPT !.name = Get(h, "family", "SimHei"),
                    !.size = Pt(Get(h, "size_pt", DefaultSizeOf(name)))]
    ELSE [name |-> Get(h, "family", "SimHei"),
          size |-> Pt(Get(h, "size_pt", DefaultSizeOf(name))),
          alignment |-> AlignOf(headings, name),
          space_before |-> Pt(Get(h, "space_before_pt", 12)),
          space_after |-> Pt(Get(h, "space_after_pt", 12))]

\* the calls of cfg_heading in the order of lines 94-102
HeadingOrder == <<"Heading 1", "Heading 2", "Heading 3">>

\* how many calls of cfg_heading begin: all three, or those up to the first
\* one that raises
HeadingCalls(headings) ==
    LET raising == {k \in 1 .. 3 :
                      SetterRaises(AlignOf(headings, HeadingOrder[k]))}
    IN  IF raising = {} THEN 3
        ELSE CHOOSE k \in raising : \A m \in raising : k <= m

\* _apply_doc_defaults(doc, header_text, cfg) raises: an exception leaves
\* a call of cfg_heading, and with it _apply_doc_defaults
ApplyRaises(cfg_) ==
    LET c == IF cfg_.none THEN EmptyDict ELSE cfg_.dict
        headings == Get(c, "headings", EmptyDict)
    IN  \E h \in HeadingNames : SetterRaises(AlignOf(headings, h))

\* the header run of lines 108-111 for the text t
HeaderRun(t, header_cfg, normal_style) ==
    Run(t, Get(header_cfg, "family", Get(normal_style, "chinese", "SimSun")),
        Pt(Get(header_cfg, "size_pt", 9)))

\* the header with the text of the call put in place of what it held
WriteHeaderOver(header, header_text_, header_cfg, normal_style) ==
    IF Truthy(header_text_) \/ Truthy(GetText(header_cfg))
    THEN <<HeaderRun(OrElse(header_text_, GetText(header_cfg)).text,
                     header_cfg, normal_style)>>
    ELSE header

\* the header with the text of the configuration taken first
WriteHeaderCfgFirst(header, header_text_, header_cfg, normal_style) ==
    IF Truthy(header_text_) \/ Truthy(GetText(header_cfg))
    THEN Append(header,
                HeaderRun(OrElse(GetText(header_cfg), header_text_).text,
                          header_cfg, normal_style))
    ELSE header

\* lines 105-111: the header region afterwards; the run is added to the
\* first paragraph of the header, after the runs it holds
WriteHeader(header, header_text_, header_cfg, normal_style) ==
    IF Truthy(header_text_) \/ Truthy(GetText(header_cfg))
    THEN Append(header,
                HeaderRun(OrElse(header_text_, GetText(header_cfg)).text,
                          header_cfg, normal_style))
    ELSE header

\* _apply_doc_defaults(doc, header_text, cfg): the document afterwards, or
\* as the exception leaves it (the headings from the raising call on and the
\* header are then as they were).  The footer of the template has no runs,
\* so lines 112-117 change nothing.
ApplyDocDefaults(d, header_text_, cfg_) ==
    LET c == IF cfg_.none THEN EmptyDict ELSE cfg_.dict
        page == Get(c, "page", EmptyDict)
        margins == Get(c, "margins", EmptyDict)
        normal_style == Get(c, "normal", EmptyDict)
        headings == Get(c, "headings", EmptyDict)
        header_cfg == Get(c, "header", EmptyDict)
    IN  [section |-> [page_width |-> Mm(Get(page, "width_mm", 210)),
                      page_height |-> Mm(Get(page, "height_mm", 297)),
                      top_margin |-> Mm(Get(margins, "top_mm", 30)),
                      bottom_margin |-> Mm(Get(margins, "bottom_mm", 25)),
                      left_margin |-> Mm(Get(margins, "left_mm", 30)),
                      right_margin |-> Mm(Get(margins, "right_mm", 25))],
         normal |-> [size |-> Pt(Get(normal_style, "size_pt", 12)),
                     ascii |-> Get(normal_style, "western", "Times New Roman"),
                     hAnsi |-> Get(normal_style, "western", "Times New Roman"),
                     eastAsia |-> Get(normal_style, "chinese", "SimSun"),
                     line_spacing |->
                         Pt(Get(normal_style, "line_spacing_pt", 20))],
         headings |-> [h \in HeadingNames |->
                          IF \E k \in 1 .. HeadingCalls(headings) :
                                 HeadingOrder[k] = h
                          THEN CfgHeading(d.headings[h], headings, h)
                          ELSE d.headings[h]],
         header |-> IF ApplyRaises(cfg_) THEN d.header
                    ELSE WriteHeader(d.header, header_text_, header_cfg,
                                     normal_style),
         body |-> d.body]

----------------------------------------------------------------------------
(* The token stream.  md.parse is markdown-it's: it emits the tokens of a  *)
(* block in order, every container closed where it ends.  ctx is the stack *)
(* of the containers still open.  The k-th inline of a stream carries the  *)
(* k-th letter as its text, so that a paragraph of the document names the  *)
(* inline it was made from.                                                *)

HeadingLevels == 1 .. 6

ListOpens == {"bullet_list_open", "ordered_list_open"}
ListCloses == {"bullet_list_close", "ordered_list_close"}

CloseOf(open) ==
    CASE open = "bullet_list_open" -> "bullet_list_close"
      [] open = "ordered_list_open" -> "ordered_list_close"
      [] open = "list_item_open" -> "list_item_close"
      [] open = "blockquote_open" -> "blockquote_close"

\* token types the walk has no branch for (it falls to line 293)
OtherTypes == {"html_block"}

FenceSample == <<"x", NL>>

NumInlines(toks) ==
    Cardinality({k \in 1 .. Len(toks) : toks[k].type = "inline"})

NumLeaves(toks) ==
    Cardinality({k \in 1 .. Len(toks) :
        toks[k].type \in {"heading_open", "paragraph_open", "fence", "hr"}
                         \cup OtherTypes})

NextText(toks) == <<Letters[NumInlines(toks) + 1]>>

\* blocks may start here: at top level, in a list item, in a blockquote
InBlockContext ==
    IF ctx = <<>> THEN TRUE
    ELSE ctx[Len(ctx)] \in {"list_item_open", "blockquote_open"}

\* k more tokens fit, and so do the closes of every open container
Room(k) == Len(tokens) + k + Len(ctx) <= MaxTokens

\* one more leaf block fits
LeafRoom == NumLeaves(tokens) < MaxLeaves

Emit(toks) ==
    /\ tokens' = tokens \o toks
    /\ UNCHANGED <<i, list_stack, doc, pc, fault, last, styleVars, mainVars>>

ParseHeading ==
    /\ pc = "parse" /\ InBlockContext /\ Room(3) /\ LeafRoom
    /\ \E level \in HeadingLevels :
         Emit(<<Tok("heading_open", HeadingTag(level), <<>>, <<>>),
                TextInline(NextText(tokens)),
                Tok("heading_close", HeadingTag(level), <<>>, <<>>)>>)
    /\ UNCHANGED ctx

ParseParagraph ==
    /\ pc = "parse" /\ InBlockContext /\ Room(3) /\ LeafRoom
    /\ Emit(<<Plain("paragraph_open"), TextInline(NextText(tokens)),
              Plain("paragraph_close")>>)
    /\ UNCHANGED ctx

ParseFence ==
    /\ pc = "parse" /\ InBlockContext /\ Room(1) /\ LeafRoom
    /\ Emit(<<Tok("fence", <<>>, FenceSample, <<>>)>>)
    /\ UNCHANGED ctx

ParseHr ==
    /\ pc = "parse" /\ InBlockContext /\ Room(1) /\ LeafRoom
    /\ Emit(<<Plain("hr")>>)
    /\ UNCHANGED ctx

ParseOther ==
    /\ pc = "parse" /\ InBlockContext /\ Room(1) /\ LeafRoom
    /\ \E t \in OtherTypes : Emit(<<Tok(t, <<>>, <<"<", ">">>, <<>>)>>)
    /\ UNCHANGED ctx

\* a list opens with its first item: markdown-it emits no empty list
ParseListOpen ==
    /\ pc = "parse" /\ InBlockContext /\ Room(4)
    /\ \E t \in ListOpens :
         /\ Emit(<<Plain(t), Plain("list_item_open")>>)
         /\ ctx' = ctx \o <<t, "list_item_open">>

ParseItemOpen ==
    /\ pc = "parse" /\ ctx # <<>> /\ ctx[Len(ctx)] \in ListOpens /\ Room(2)
    /\ Emit(<<Plain("list_item_open")>>)
    /\ ctx' = Append(ctx, "list_item_open")

ParseQuoteOpen ==
    /\ pc = "parse" /\ InBlockContext /\ Room(2)
    /\ Emit(<<Plain("blockquote_open")>>)
    /\ ctx' = Append(ctx, "blockquote_open")

\* the innermost open container ends
ParseClose ==
    /\ pc = "parse" /\ ctx # <<>>
    /\ Emit(<<Plain(CloseOf(ctx[Len(ctx)]))>>)
    /\ ctx' = Front(ctx)

----------------------------------------------------------------------------
(* fallback_convert_with_python_docx: the walk.                            *)

NoIndex == -1

InRange(toks, k) == 0 <= k /\ k < Len(toks)

\* tokens[k] if k < len(tokens) else None, as an index
TokenOrNone(toks, k) == IF k < Len(toks) THEN k ELSE NoIndex

\* "".join(ch.content for ch in children if getattr(ch, "content", None))
ChildText(children) ==
    LET kept == SelectSeq(children, LAMBDA ch : ch.content # <<>>)
    IN  Concat([k \in 1 .. Len(kept) |-> kept[k].content])

DigitValue(c) ==
    CASE c = "0" -> 0 [] c = "1" -> 1 [] c = "2" -> 2 [] c = "3" -> 3
      [] c = "4" -> 4 [] c = "5" -> 5 [] c = "6" -> 6 [] c = "7" -> 7
      [] c = "8" -> 8 [] c = "9" -> 9

\* int(tok.tag[-1]) if tok.tag.startswith("h") else 1
HeadingLevelOne(tag) == 1
HeadingLevel(tag) ==
    IF tag # <<>> /\ tag[1] = "h" THEN DigitValue(tag[Len(tag)]) ELSE 1

Min(a, b) == IF a <= b THEN a ELSE b

\* f"Heading {n}"
HeadingStyle(n) ==
    <<"Heading 1", "Heading 2", "Heading 3", "Heading 4", "Heading 5",
      "Heading 6">>[n]

MarkerTypes ==
    {"em_open", "em_close", "strong_open", "strong_close", "link_open",
     "link_close"}

\* the runs with the breaks dropped
InlineRunsNoBreaks(children) ==
    LET kept == SelectSeq(children, LAMBDA ch :
                    ch.type \notin MarkerTypes \cup {"softbreak", "hardbreak"}
                    /\ (ch.type \in {"text", "code_inline"}
                        \/ ch.content # <<>>))
    IN  [k \in 1 .. Len(kept) |->
            BodyRun(kept[k].content,
                    IF kept[k].type = "code_inline" THEN "Consolas"
                    ELSE NoFont)]

RECURSIVE InlineRuns(_)
\* the runs add_paragraph_from_inline adds, in order
InlineRuns(children) ==
    IF children = <<>> THEN <<>>
    ELSE LET child == Head(children)
             rest == InlineRuns(Tail(children))
         IN  CASE child.type = "text" ->
                    <<BodyRun(child.content, NoFont)>> \o rest
               [] child.type = "code_inline" ->
                    <<BodyRun(child.content, "Consolas")>> \o rest
               [] child.type \in {"softbreak", "hardbreak"} ->
                    <<BodyRun(<<NL>>, NoFont)>> \o rest
               [] child.type \in MarkerTypes -> rest
               [] OTHER ->
                    IF child.content # <<>>
                    THEN <<BodyRun(child.content, NoFont)>> \o rest
                    ELSE rest

\* add_paragraph_from_inline(inline_children): the paragraph
ParagraphFromInline(children) == Para("Normal", InlineRuns(children), 0)

RECURSIVE ScanTo(_, _, _)
\* while j < len(tokens) and tokens[j].type != close: j += 1
ScanTo(toks, j, close) ==
    IF j < Len(toks) /\ At(toks, j).type # close
    THEN ScanTo(toks, j + 1, close)
    ELSE j

RECURSIVE ItemText(_, _, _, _)
\* content_text after the scan of tokens[from .. to-1]: the text of the
\* last inline with children
ItemText(toks, from, to, acc) ==
    IF from >= to THEN acc
    ELSE LET t == At(toks, from)
         IN  ItemText(toks, from + 1, to,
                      IF t.type = "inline" /\ t.children # <<>>
                      THEN ChildText(t.children) ELSE acc)

RECURSIVE QuoteLines(_, _, _)
\* quote_lines after the scan of tokens[from .. to-1]
QuoteLines(toks, from, to) ==
    IF from >= to THEN <<>>
    ELSE LET t == At(toks, from)
         IN  (IF t.type = "inline" /\ t.content # <<>>
              THEN <<t.content>> ELSE <<>>)
             \o QuoteLines(toks, from + 1, to)

\* the entry pushed at line 237
StackEntry(t, stack) == [type |-> t, indent |-> Len(stack)]

\* line 242, "if list_stack:", the guard of the pop
PopGuardNone(stack) == TRUE
PopGuard(stack) == stack # <<>>

\* line 243: list_stack.pop()
PopKeep(stack) == stack
Pop(stack) == Front(stack)

\* line 258: the marker of a list item
Bullet(stack) ==
    IF stack # <<>> /\ stack[Len(stack)].type = "bullet_list_open"
    THEN <<BulletChar>> ELSE <<"1", ".">>

\* line 259: the indentation of a list item
Indent(stack) == Repeat(<<" ", " ", " ", " ">>, Len(stack) - 1)

NoLast == [type |-> "none", i |-> 0, n |-> 0, stack |-> <<>>, iter |-> 0]

\* one iteration of the while loop ends: the cursor, the stack and the body
\* it leaves; bad when the iteration raised instead
Iterate(ni, nstack, nbody, bad) ==
    /\ IF bad
       THEN /\ fault' = TRUE
            /\ pc' = "raised"
            /\ UNCHANGED <<i, list_stack, doc, last>>
       ELSE /\ i' = ni
            /\ list_stack' = nstack
            /\ doc' = [doc EXCEPT !.body = nbody]
            /\ last' = [type |-> At(tokens, i).type, i |-> i,
                        n |-> Len(doc.body), stack |-> list_stack,
                        iter |-> last.iter + 1]
            /\ UNCHANGED <<pc, fault>>
    /\ UNCHANGED <<tokens, ctx, styleVars, mainVars>>

AtCursor(types) ==
    /\ pc = "walk"
    /\ i < Len(tokens)
    /\ At(tokens, i).type \in types

\* lines 176-180, 208: the document is made and styled, the walk begins
StartWalk ==
    /\ pc = "parse"
    /\ ctx = <<>>
    /\ doc' = ApplyDocDefaults(Document, header_text, cfg)
    /\ applied' = applied + 1
    /\ list_stack' = <<>>
    /\ i' = 0
    /\ pc' = "walk"
    /\ UNCHANGED <<tokens, ctx, fault, last, cfg, header_text, mainVars>>

\* lines 213-224
HeadingOpen ==
    /\ AtCursor({"heading_open"})
    /\ LET tok == At(tokens, i)
           level == HeadingLevel(tok.tag)
           n == TokenOrNone(tokens, i + 1)
           bad == n # NoIndex /\ ~InRange(tokens, n)
           text_content ==
               IF n = NoIndex \/ bad THEN <<>>
               ELSE ChildText(At(tokens, n).children)
       IN  Iterate(i + 3, list_stack,
                   Append(doc.body,
                          AddParagraph(text_content,
                                       HeadingStyle(Min(level, 6)))),
                   bad)

\* lines 226-234
ParagraphOpen ==
    /\ AtCursor({"paragraph_open"})
    /\ LET n == TokenOrNone(tokens, i + 1)
           bad == n # NoIndex /\ ~InRange(tokens, n)
       IN  Iterate(i + 3, list_stack,
                   Append(doc.body,
                          IF n = NoIndex \/ bad THEN AddParagraph(<<>>, "Normal")
                          ELSE ParagraphFromInline(At(tokens, n).children)),
                   bad)

\* a variant that also appends an empty paragraph for the list
ListOpenAppends ==
    /\ AtCursor(ListOpens)
    /\ Iterate(i + 1,
               Append(list_stack, StackEntry(At(tokens, i).type, list_stack)),
               Append(doc.body, AddParagraph(<<>>, "Normal")), FALSE)

\* lines 236-239
ListOpen ==
    /\ AtCursor(ListOpens)
    /\ Iterate(i + 1,
               Append(list_stack, StackEntry(At(tokens, i).type, list_stack)),
               doc.body, FALSE)

\* lines 241-245: list.pop() on an empty list raises IndexError
ListClose ==
    /\ AtCursor(ListCloses)
    /\ IF PopGuard(list_stack)
       THEN Iterate(i + 1, Pop(list_stack), doc.body, list_stack = <<>>)
       ELSE Iterate(i + 1, list_stack, doc.body, FALSE)

\* lines 247-264
ListItemOpen ==
    /\ AtCursor({"list_item_open"})
    /\ LET j == ScanTo(tokens, i + 1, "list_item_close")
           content_text == ItemText(tokens, i + 1, j, <<>>)
           para == Para("Normal",
                        <<BodyRun(Indent(list_stack) \o Bullet(list_stack)
                                  \o <<" ">> \o content_text, NoFont)>>,
                        Pt(20))
       IN  Iterate(j + 1, list_stack, Append(doc.body, para), FALSE)

\* lines 266-272
Fence ==
    /\ AtCursor({"fence"})
    /\ LET code_text == RstripNL(At(tokens, i).content)
       IN  Iterate(i + 1, list_stack,
                   Append(doc.body,
                          Para("Normal", <<BodyRun(code_text, "Consolas")>>,
                               0)),
                   FALSE)

\* lines 274-285
BlockquoteOpen ==
    /\ AtCursor({"blockquote_open"})
    /\ LET j == ScanTo(tokens, i + 1, "blockquote_close")
           quote_lines == QuoteLines(tokens, i + 1, j)
       IN  Iterate(j + 1, list_stack,
                   doc.body \o [k \in 1 .. Len(quote_lines) |->
                                  AddParagraph(<<">", " ">> \o quote_lines[k],
                                               "Normal")],
                   FALSE)

HrText == <<EmDash, EmDash, EmDash, EmDash, EmDash, EmDash>>

\* a variant that puts the rule before the blocks already there
HrPrepends ==
    /\ AtCursor({"hr"})
    /\ Iterate(i + 1, list_stack,
               <<AddParagraph(HrText, "Normal")>> \o doc.body, FALSE)

\* lines 287-290
Hr ==
    /\ AtCursor({"hr"})
    /\ Iterate(i + 1, list_stack,
               Append(doc.body, AddParagraph(HrText, "Normal")), FALSE)

HandledTypes ==
    {"heading_open", "paragraph_open", "list_item_open", "fence",
     "blockquote_open", "hr"} \cup ListOpens \cup ListCloses

\* a variant that leaves the cursor where it is
OtherTokenStay ==
    /\ pc = "walk"
    /\ i < Len(tokens)
    /\ At(tokens, i).type \notin HandledTypes
    /\ Iterate(i, list_stack, doc.body, FALSE)

\* lines 292-293
OtherToken ==
    /\ pc = "walk"
    /\ i < Len(tokens)
    /\ At(tokens, i).type \notin HandledTypes
    /\ Iterate(i + 1, list_stack, doc.body, FALSE)

\* line 209 turns false; lines 295-296
WalkDone ==
    /\ pc = "walk"
    /\ i >= Len(tokens)
    /\ pc' = "done"
    /\ UNCHANGED <<tokens, ctx, i, list_stack, doc, fault, last, styleVars,
                   mainVars>>

Walk ==
    \/ HeadingOpen
    \/ ParagraphOpen
    \/ ListOpen
    \/ ListClose
    \/ ListItemOpen
    \/ Fence
    \/ BlockquoteOpen
    \/ Hr
    \/ OtherToken
    \/ WalkDone

NoEnv == [none |-> TRUE]

NoLocals == [out_ext |-> "", ok |-> FALSE, ref_exists |-> FALSE]

\* the walk and main run with a configuration that names no alignment: the
\* lookups are of CENTER and LEFT with themselves as defaults, which give
\* the member under every class dictionary, and no setter raises
InitNoAlign == WD_ALIGN_PARAGRAPH = EnumEntries

InitCommon ==
    /\ i = 0
    /\ list_stack = <<>>
    /\ doc = Document
    /\ fault = FALSE
    /\ last = NoLast
    /\ applied = 0
    /\ steps = <<>>
    /\ exit_code = -1
    /\ locals = NoLocals

Init ==
    /\ InitCommon
    /\ InitNoAlign
    /\ env = NoEnv
    /\ tokens = <<>>
    /\ ctx = <<>>
    /\ pc = "parse"
    /\ cfg = NoneCfg
    /\ header_text = NoneStr

Parse ==
    \/ ParseHeading
    \/ ParseParagraph
    \/ ParseFence
    \/ ParseHr
    \/ ParseOther
    \/ ParseListOpen
    \/ ParseItemOpen
    \/ ParseQuoteOpen
    \/ ParseClose

Next == Parse \/ StartWalk \/ Walk

Spec == Init /\ [][Next]_vars

----------------------------------------------------------------------------
(* The walk over one leaf block, with the inline spans, the heading levels *)
(* and the code texts varied.                                              *)

\* child spans of an inline token: their type and content as markdown-it
\* gives them (breaks and markers carry no content, an image carries its
\* alternative text, s_open is the strikethrough marker)
SpanChoices ==
    {Span("text", <<"a">>), Span("text", <<>>), Span("code_inline", <<"c">>),
     Span("softbreak", <<>>), Span("hardbreak", <<>>), Span("em_open", <<>>),
     Span("strong_close", <<>>), Span("link_open", <<>>),
     Span("image", <<"i">>), Span("s_open", <<>>)}

RECURSIVE SeqsUpTo(_, _)
\* the sequences over S of length at most n
SeqsUpTo(S, n) ==
    IF n = 0 THEN {<<>>}
    ELSE LET shorter == SeqsUpTo(S, n - 1)
         IN  shorter \cup {Append(q, x) : q \in shorter, x \in S}

CodeChars == {"x", "1", NL}

\* the streams of one leaf block, after a horizontal rule or not, with up to
\* spans child spans in the inline and up to codelen characters of code
BlockStreams(spans, codelen) ==
    LET childrens == SeqsUpTo(SpanChoices, spans)
        inlines == {InlineTok(ChildText(c), c) : c \in childrens}
        blocks ==
            {<<Plain("paragraph_open"), n, Plain("paragraph_close")>> :
                n \in inlines}
            \cup {<<Tok("heading_open", HeadingTag(level), <<>>, <<>>), n,
                    Tok("heading_close", HeadingTag(level), <<>>, <<>>)>> :
                    level \in HeadingLevels, n \in inlines}
            \cup {<<Tok("fence", <<>>, code, <<>>)>> :
                    code \in SeqsUpTo(CodeChars, codelen)}
    IN  {pre \o b : pre \in {<<>>, <<Plain("hr")>>}, b \in blocks}

InitBlock ==
    /\ InitCommon
    /\ InitNoAlign
    /\ env = NoEnv
    /\ tokens \in BlockStreams(MaxSpans, MaxCodeLen)
    /\ ctx = <<>>
    /\ pc = "parse"
    /\ cfg = NoneCfg
    /\ header_text = NoneStr

NextBlock ==
    \/ StartWalk
    \/ HeadingOpen
    \/ ParagraphOpen
    \/ Fence
    \/ Hr
    \/ WalkDone

SpecBlock == InitBlock /\ [][NextBlock]_vars

----------------------------------------------------------------------------
(* The walk over any finite stream, balanced or not: every sequence of up  *)
(* to MaxAny tokens of the kinds the parser emits.                         *)

AnyTokens ==
    {Plain(t) : t \in ListOpens \cup ListCloses
                       \cup {"paragraph_open", "paragraph_close",
                             "list_item_open", "list_item_close",
                             "blockquote_open", "blockquote_close", "hr"}}
    \cup {Tok("heading_open", HeadingTag(2), <<>>, <<>>),
          Tok("heading_close", HeadingTag(2), <<>>, <<>>),
          TextInline(<<"a">>),
          Tok("fence", <<>>, FenceSample, <<>>),
          Tok("html_block", <<>>, <<"<", ">">>, <<>>)}

InitAny ==
    /\ InitCommon
    /\ InitNoAlign
    /\ env = NoEnv
    /\ tokens \in SeqsUpTo(AnyTokens, MaxAny)
    /\ ctx = <<>>
    /\ pc = "parse"
    /\ cfg = NoneCfg
    /\ header_text = NoneStr

NextAny == StartWalk \/ Walk

SpecAny == InitAny /\ [][NextAny]_vars

----------------------------------------------------------------------------
(* Properties of the walk.                                                 *)

Types(toks) == {toks[k].type : k \in 1 .. Len(toks)}

IndicesOf(toks, types) == {k \in 0 .. Len(toks) - 1 : At(toks, k).type \in types}

RECURSIVE Ascending(_)
\* the elements of a finite set of integers, in ascending order
Ascending(S) ==
    IF S = {} THEN <<>>
    ELSE LET m == CHOOSE x \in S : \A y \in S : x <= y
         IN  <<m>> \o Ascending(S \ {m})

\* the number of lists open at token k: opens minus closes before k
ListDepthAt(toks, k) ==
    Cardinality({m \in IndicesOf(toks, ListOpens) : m < k})
    - Cardinality({m \in IndicesOf(toks, ListCloses) : m < k})

\* the text of the paragraph a list item starts with, "" if it has none
OwnText(toks, k) ==
    IF k + 2 < Len(toks) /\ At(toks, k + 1).type = "paragraph_open"
    THEN ChildText(At(toks, k + 2).children) ELSE <<>>

\* a stream of bullet lists only, each item holding at most a paragraph,
\* first, and lists
BulletListsOnly(toks) ==
    /\ toks # <<>>
    /\ Types(toks) \subseteq
         {"bullet_list_open", "bullet_list_close", "list_item_open",
          "list_item_close", "paragraph_open", "inline", "paragraph_close"}
    /\ \A k \in IndicesOf(toks, {"paragraph_open"}) :
         k > 0 /\ At(toks, k - 1).type = "list_item_open"

BodyTexts == [k \in 1 .. Len(doc.body) |-> ParaText(doc.body[k])]

FourSpaces == <<" ", " ", " ", " ">>

\* C1: a balanced stream of nested bullet lists yields exactly one paragraph
\* per list item, in order, each the item's text after the bullet glyph,
\* indented by 4 spaces per enclosing list beyond the first.
C1_OneParagraphPerItem ==
    (pc = "done" /\ BulletListsOnly(tokens)) =>
        LET items == Ascending(IndicesOf(tokens, {"list_item_open"}))
        IN  BodyTexts =
                [m \in 1 .. Len(items) |->
                    Repeat(FourSpaces, ListDepthAt(tokens, items[m]) - 1)
                    \o <<BulletChar, " ">> \o OwnText(tokens, items[m])]

\* C2: when the walk of a balanced stream has ended, the list context stack
\* is empty.
C2_StackEmptyAtEnd == (pc = "done") => list_stack = <<>>

\* a walk that ended with a list close, over a stream with a list nested in
\* a list item, an ordered list and a blockquote
C2_Witness ==
    /\ pc = "done"
    /\ list_stack = <<>>
    /\ last.type \in ListCloses
    /\ \E k \in IndicesOf(tokens, ListOpens) : ListDepthAt(tokens, k) >= 1
    /\ "blockquote_open" \in Types(tokens)
    /\ "ordered_list_open" \in Types(tokens)

\* C6: no iteration of the walk over a well-formed stream raises: every
\* token index it reads is inside the stream and it pops no empty stack.
C6_NeverFails ==
    /\ fault = FALSE
    /\ pc # "raised"
    /\ (pc = "walk" /\ i < Len(tokens)) =>
         LET t == At(tokens, i).type
         IN  /\ t \in {"heading_open", "paragraph_open"} =>
                  LET n == TokenOrNone(tokens, i + 1)
                  IN  n = NoIndex \/ InRange(tokens, n)
             /\ (t \in ListCloses /\ PopGuard(list_stack)) =>
                  list_stack # <<>>

\* a list close was handled while the stack was already empty, and the walk
\* went on
C6_Witness ==
    /\ pc = "walk"
    /\ fault = FALSE
    /\ last.type \in ListCloses
    /\ last.stack = <<>>
    /\ i = last.i + 1

\* C15: the walk is one forward pass that ends, over balanced and
\* unbalanced streams alike: every iteration leaves the cursor strictly
\* greater than it found it, an iteration is always possible while the
\* cursor is inside the stream, the walk makes at most length-many
\* iterations, and it ends with the cursor at or past the end of the stream.
C15_CursorAdvances ==
    /\ pc # "raised"
    /\ (pc \in {"walk", "done"} /\ last.type # "none") =>
         /\ i >= last.i + 1
         /\ last.i < Len(tokens)
         /\ last.iter <= last.i + 1
         /\ last.iter <= Len(tokens)
    /\ (pc = "walk" /\ i < Len(tokens)) => ENABLED Walk
    /\ pc = "done" => i >= Len(tokens)

\* a walk ended past the end of an unbalanced stream: its last token is a
\* heading_open with nothing after it
C15_Witness ==
    /\ pc = "done"
    /\ last.type = "heading_open"
    /\ last.iter >= 2
    /\ last.i = Len(tokens) - 1
    /\ i = Len(tokens) + 2

\* what one iteration at a token of type t may change
FrameOf(t) ==
    /\ t \in ListOpens =>
         /\ list_stack' = Append(list_stack,
                                 [type |-> t, indent |-> Len(list_stack)])
         /\ doc' = doc
    /\ t \in ListCloses =>
         /\ list_stack' = IF list_stack = <<>> THEN <<>>
                          ELSE SubSeq(list_stack, 1, Len(list_stack) - 1)
         /\ doc' = doc
    /\ t \notin ListOpens \cup ListCloses => list_stack' = list_stack
    /\ t \notin {"heading_open", "paragraph_open", "list_item_open", "fence",
                 "blockquote_open", "hr"} \cup ListOpens \cup ListCloses =>
         /\ doc' = doc
         /\ list_stack' = list_stack
         /\ i' = i + 1

\* C16: frame conditions of the walk. A list open pushes and a list close
\* pops (nothing on an empty stack), and neither appends a block; every
\* other handler leaves the stack as it is; a token of an unrecognized kind,
\* a stray inline or close included, leaves the document and the stack as
\* they are and moves the cursor by exactly 1.
C16_FrameConditions ==
    [][(pc = "walk" /\ i < Len(tokens)) => FrameOf(At(tokens, i).type)]_vars

\* a stray inline was skipped inside an open list, and an hr produced a
\* block before it
C16_Witness ==
    /\ pc \in {"walk", "done"}
    /\ last.type = "inline"
    /\ i = last.i + 1
    /\ last.stack # <<>>
    /\ list_stack = last.stack
    /\ Len(doc.body) = last.n
    /\ last.n >= 1

\* p is q or q with blocks added at its end
IsPrefix(q, p) == Len(q) <= Len(p) /\ SubSeq(p, 1, Len(q)) = q

\* the position in Letters of the inline text a block carries, 0 for a
\* block that carries none
LetterOf(text) ==
    LET found == {k \in 1 .. Len(Letters) :
                    \E m \in 1 .. Len(text) : text[m] = Letters[k]}
    IN  IF found = {} THEN 0 ELSE CHOOSE k \in found : TRUE

\* the blocks that carry an inline text carry them in the order of the
\* inline tokens
BlocksInTokenOrder ==
    LET carried == SelectSeq([k \in 1 .. Len(doc.body) |->
                                 LetterOf(ParaText(doc.body[k]))],
                             LAMBDA x : x > 0)
    IN  \A k \in 1 .. Len(carried) - 1 : carried[k] < carried[k + 1]

\* C19: the document is append-only during the walk. It has no block when
\* the walk starts, every step of the walk leaves the earlier blocks where
\* and as they are and adds blocks at the end only, and the blocks are in
\* the order of the tokens they were made from.
C19_AppendOnly ==
    /\ [][/\ (pc = "parse" /\ pc' = "walk") => doc'.body = <<>>
          /\ pc = "walk" => IsPrefix(doc.body, doc'.body)]_vars
    /\ [](pc = "parse" => doc.body = <<>>)
    /\ []BlocksInTokenOrder

\* the paragraph of a list item, made from the second inline of the stream,
\* was appended after the block made from the first inline
C19_Witness ==
    /\ pc \in {"walk", "done"}
    /\ last.type = "list_item_open"
    /\ last.n = 1
    /\ Len(doc.body) = 2
    /\ LetterOf(ParaText(doc.body[1])) = 1
    /\ LetterOf(ParaText(doc.body[2])) = 2

----------------------------------------------------------------------------
(* Properties of the list-item and blockquote handlers.                    *)

RECURSIVE EnclosingLists(_, _)
\* the list opens that are not yet closed at token k of a balanced stream,
\* outermost first
EnclosingLists(toks, k) ==
    IF k = 0 THEN <<>>
    ELSE LET before == EnclosingLists(toks, k - 1)
             t == At(toks, k - 1).type
         IN  CASE t \in ListOpens -> Append(before, t)
               [] t \in ListCloses /\ before # <<>> -> Front(before)
               [] OTHER -> before

RECURSIVE StripSpaces(_)
\* a text without its leading spaces
StripSpaces(text) ==
    IF text # <<>> /\ Head(text) = " " THEN StripSpaces(Tail(text)) ELSE text

\* the marker a list item's paragraph starts with, after its indentation
MarkerOf(text) ==
    LET t == StripSpaces(text)
    IN  IF Len(t) >= 1 /\ t[1] = BulletChar THEN "bullet"
        ELSE IF Len(t) >= 2 /\ t[1] = "1" /\ t[2] = "." THEN "ordered"
        ELSE "none"

\* the last iteration handled a list_item_open and appended its paragraph
ItemHandled ==
    /\ pc \in {"walk", "done"}
    /\ last.type = "list_item_open"
    /\ Len(doc.body) = last.n + 1

\* C12: the paragraph of every list item handled during the walk of a
\* balanced stream starts with the bullet glyph exactly when the innermost
\* list enclosing the item in the stream is a bullet list, and with "1."
\* exactly when it is an ordered list.
C12_MarkerOfInnermostList ==
    ItemHandled =>
        LET lists == EnclosingLists(tokens, last.i)
            marker == MarkerOf(ParaText(doc.body[Len(doc.body)]))
        IN  /\ lists # <<>>
            /\ marker = "bullet" <=> lists[Len(lists)] = "bullet_list_open"
            /\ marker = "ordered" <=> lists[Len(lists)] = "ordered_list_open"

RECURSIVE MatchFrom(_, _, _, _, _)
\* the index of the first close at nesting depth 0 from token j on, the
\* length of the stream when there is none
MatchFrom(toks, j, depth, open, close) ==
    IF j >= Len(toks) THEN Len(toks)
    ELSE LET t == At(toks, j).type
         IN  IF t = close
             THEN IF depth = 0 THEN j
                  ELSE MatchFrom(toks, j + 1, depth - 1, open, close)
             ELSE IF t = open
                  THEN MatchFrom(toks, j + 1, depth + 1, open, close)
                  ELSE MatchFrom(toks, j + 1, depth, open, close)

\* the close that balances the open at token k
MatchingClose(toks, k, open, close) == MatchFrom(toks, k + 1, 0, open, close)

\* C13: when a list_item_open at position i is handled, the scan stops at
\* the list_item_close that balances it, the item text is that of the last
\* inline with child spans between the two, exactly one paragraph is
\* appended, and the cursor is then just after that close.
C13_ScanToMatchingClose ==
    (pc \in {"walk", "done"} /\ last.type = "list_item_open") =>
        LET m == MatchingClose(tokens, last.i, "list_item_open",
                               "list_item_close")
        IN  /\ m < Len(tokens)
            /\ i = m + 1
            /\ Len(doc.body) = last.n + 1
            /\ ParaText(doc.body[Len(doc.body)]) =
                   Indent(last.stack) \o Bullet(last.stack) \o <<" ">>
                   \o ItemText(tokens, last.i + 1, m, <<>>)

\* C14: when a blockquote_open is handled, one paragraph "> " + raw content
\* is appended for each inline with non-empty raw content between the open
\* and the blockquote_close that balances it, in token order, and the cursor
\* is then just after that close, so that no token inside the blockquote
\* yields any other block.
C14_QuoteToMatchingClose ==
    (pc \in {"walk", "done"} /\ last.type = "blockquote_open") =>
        LET m == MatchingClose(tokens, last.i, "blockquote_open",
                               "blockquote_close")
            lines == QuoteLines(tokens, last.i + 1, m)
        IN  /\ m < Len(tokens)
            /\ i = m + 1
            /\ Len(doc.body) = last.n + Len(lines)
            /\ \A k \in 1 .. Len(lines) :
                  ParaText(doc.body[last.n + k]) = <<">", " ">> \o lines[k]

----------------------------------------------------------------------------
(* Properties of the leaf handlers.                                        *)

\* the paragraph the last iteration appended
LastBlock == doc.body[Len(doc.body)]

\* the last iteration handled a token of type t and appended one block
Handled(t, advance) ==
    /\ last.type = t
    /\ i = last.i + advance
    /\ Len(doc.body) = last.n + 1

\* the statement of C3 as the specification words it: exactly one trailing
\* line terminator is removed from the code text
C3_StripsOneTerminator ==
    (pc \in {"walk", "done"} /\ last.type = "fence") =>
        /\ Handled("fence", 1)
        /\ LastBlock.runs =
             <<BodyRun(LET c == At(tokens, last.i).content
                       IN  IF c # <<>> /\ c[Len(c)] = NL THEN Front(c) ELSE c,
                       "Consolas")>>

\* C3 (amended): a fence token appends exactly one paragraph with exactly
\* one run, in the monospace font, whose text is the code text without all
\* of its trailing line terminators, and advances the cursor by 1.
C3_StripsAllTerminators ==
    (pc \in {"walk", "done"} /\ last.type = "fence") =>
        /\ Handled("fence", 1)
        /\ Len(LastBlock.runs) = 1
        /\ LastBlock.runs[1].name = "Consolas"
        /\ LET c == At(tokens, last.i).content
               text == LastBlock.runs[1].text
           IN  /\ Len(text) <= Len(c)
               /\ text = SubSeq(c, 1, Len(text))
               /\ \A k \in Len(text) + 1 .. Len(c) : c[k] = NL
               /\ text # <<>> => text[Len(text)] # NL

\* a fence whose code ends with two line terminators was handled
C3_Witness ==
    /\ pc = "done"
    /\ last.type = "fence"
    /\ LET c == At(tokens, last.i).content
       IN  /\ Len(c) >= 3
           /\ c[Len(c)] = NL /\ c[Len(c) - 1] = NL /\ c[1] # NL
    /\ Len(LastBlock.runs) = 1

\* the spans of an inline that C4 gives a run
GetsRun(span) ==
    \/ span.type \in {"text", "code_inline", "softbreak", "hardbreak"}
    \/ span.type \notin MarkerTypes /\ span.content # <<>>

\* C4: a paragraph triple appends exactly one paragraph and advances the
\* cursor by 3; its runs are, in span order, the text of each text span, a
\* monospace run for each inline code span, a newline run for each break,
\* nothing for emphasis, strong and link markers, and the text of any other
\* span that has one.
C4_ParagraphRuns ==
    (pc \in {"walk", "done"} /\ last.type = "paragraph_open") =>
        /\ Handled("paragraph_open", 3)
        /\ LET spans == SelectSeq(At(tokens, last.i + 1).children, GetsRun)
           IN  /\ Len(LastBlock.runs) = Len(spans)
               /\ \A k \in 1 .. Len(spans) :
                    /\ LastBlock.runs[k].text =
                         (IF spans[k].type \in {"softbreak", "hardbreak"}
                          THEN <<NL>> ELSE spans[k].content)
                    /\ LastBlock.runs[k].name =
                         (IF spans[k].type = "code_inline" THEN "Consolas"
                          ELSE NoFont)

\* a paragraph of a text span, a marker and a break was handled
C4_Witness ==
    /\ pc = "done"
    /\ last.type = "paragraph_open"
    /\ LET ch == At(tokens, last.i + 1).children
       IN  /\ Len(ch) = 3
           /\ ch[1] = Span("text", <<"a">>)
           /\ ch[2].type \in MarkerTypes
           /\ ch[3].type = "softbreak"
    /\ Len(LastBlock.runs) = 2

\* C5: a heading triple of level L appends exactly one heading block of
\* level min(L, 6) whose text is the concatenation of the contents of the
\* inline's spans, and advances the cursor by 3.
C5_HeadingBlock ==
    (pc \in {"walk", "done"} /\ last.type = "heading_open") =>
        /\ Handled("heading_open", 3)
        /\ \E L \in 1 .. 6 :
             /\ At(tokens, last.i).tag = HeadingTag(L)
             /\ LastBlock.style = HeadingStyle(IF L < 6 THEN L ELSE 6)
        /\ LET ch == At(tokens, last.i + 1).children
           IN  ParaText(LastBlock) = Concat([k \in 1 .. Len(ch) |-> ch[k].content])

\* a heading of level 2 over a text span and an inline code span was handled
C5_Witness ==
    /\ pc = "done"
    /\ last.type = "heading_open"
    /\ At(tokens, last.i).tag = <<"h", "2">>
    /\ At(tokens, last.i + 1).children =
         <<Span("text", <<"a">>), Span("code_inline", <<"c">>)>>
    /\ LastBlock.style = "Heading 2"
    /\ ParaText(LastBlock) = <<"a", "c">>

----------------------------------------------------------------------------
(* _apply_doc_defaults on a fresh document, for the configurations that    *)
(* supply at most MaxFields fields.  A field is the path of its keys.      *)

GeometryFields ==
    {<<"page", "width_mm">>, <<"page", "height_mm">>, <<"margins", "top_mm">>,
     <<"margins", "bottom_mm">>, <<"margins", "left_mm">>,
     <<"margins", "right_mm">>}

NormalFields ==
    {<<"normal", k>> : k \in {"size_pt", "chinese", "western",
                               "line_spacing_pt"}}

HeadingFields ==
    {<<"headings", h, k>> :
        h \in HeadingNames,
        k \in {"family", "size_pt", "align", "space_before_pt",
               "space_after_pt"}}

HeaderFields == {<<"header", k>> : k \in {"family", "size_pt", "text"}}

Fields == GeometryFields \cup NormalFields \cup HeadingFields \cup HeaderFields

Key(f) == f[Len(f)]

\* the values a configuration file may give a field
FieldValues(f) ==
    CASE f[1] \in {"page", "margins"} -> {150}
      [] Key(f) \in {"size_pt", "line_spacing_pt", "space_before_pt",
                     "space_after_pt"} -> {7}
      [] Key(f) \in {"family", "chinese", "western"} -> {"KaiTi"}
      [] Key(f) = "align" ->
           {"RIGHT", "right", "__module__", "_member_map_", "__members__"}
      [] Key(f) = "text" -> {<<"C">>, <<>>}

RECURSIVE SubsetsUpTo(_, _)
\* the subsets of S of at most n elements
SubsetsUpTo(S, n) ==
    IF n = 0 THEN {{}}
    ELSE LET smaller == SubsetsUpTo(S, n - 1)
         IN  smaller \cup {T \cup {x} : T \in smaller, x \in S}

RECURSIVE Assignments(_)
\* the ways to give every field of S one of its values
Assignments(S) ==
    IF S = {} THEN {<<>>}
    ELSE LET f == CHOOSE x \in S : TRUE
         IN  {(f :> v) @@ a : v \in FieldValues(f), a \in Assignments(S \ {f})}

\* the dict a YAML or JSON file with these fields loads as
Nested(a) ==
    LET S == DOMAIN a
    IN  [g \in {f[1] : f \in S} |->
            IF g = "headings"
            THEN [h \in {f[2] : f \in {x \in S : x[1] = g}} |->
                    [k \in {f[3] : f \in {x \in S : x[1] = g /\ x[2] = h}} |->
                        a[<<g, h, k>>]]]
            ELSE [k \in {f[2] : f \in {x \in S : x[1] = g}} |-> a[<<g, k>>]]]

Configs ==
    {NoneCfg} \cup
    {SomeCfg(Nested(a)) :
        a \in UNION {Assignments(S) : S \in SubsetsUpTo(Fields, MaxFields)}}

HeaderTexts == {NoneStr, SomeStr(<<>>), SomeStr(<<"H">>)}

InitStyle ==
    /\ InitCommon
    /\ WD_ALIGN_PARAGRAPH \in AlignClasses
    /\ env = NoEnv
    /\ tokens = <<>>
    /\ ctx = <<>>
    /\ pc = "style"
    /\ cfg \in Configs
    /\ header_text \in HeaderTexts

\* a call _apply_doc_defaults(doc, header_text, cfg); last keeps the
\* document as it was before the call.  A call that raises ends the run,
\* with the document as far as the call has styled it
ApplyStyle ==
    /\ pc = "style"
    /\ applied < MaxApplies
    /\ doc' = ApplyDocDefaults(doc, header_text, cfg)
    /\ last' = doc
    /\ applied' = applied + 1
    /\ IF ApplyRaises(cfg)
       THEN fault' = TRUE /\ pc' = "raised"
       ELSE UNCHANGED <<pc, fault>>
    /\ UNCHANGED <<tokens, ctx, i, list_stack, cfg, header_text, mainVars>>

NextStyle == ApplyStyle

SpecStyle == InitStyle /\ [][NextStyle]_vars

----------------------------------------------------------------------------
(* Properties of the style applier.                                        *)

CfgDict == IF cfg.none THEN EmptyDict ELSE cfg.dict

\* the configuration supplies field f
Has(c, f) ==
    /\ f[1] \in DOMAIN c
    /\ f[2] \in DOMAIN c[f[1]]
    /\ Len(f) = 3 => f[3] \in DOMAIN c[f[1]][f[2]]

ValueAt(c, f) == IF Len(f) = 3 THEN c[f[1]][f[2]][f[3]] ELSE c[f[1]][f[2]]

\* the built-in default of a field, as the specification lists them
DefaultOf(c, f) ==
    CASE f = <<"page", "width_mm">> -> 210
      [] f = <<"page", "height_mm">> -> 297
      [] f \in {<<"margins", "top_mm">>, <<"margins", "left_mm">>} -> 30
      [] f \in {<<"margins", "bottom_mm">>, <<"margins", "right_mm">>} -> 25
      [] f = <<"normal", "chinese">> -> "SimSun"
      [] f = <<"normal", "western">> -> "Times New Roman"
      [] f = <<"normal", "size_pt">> -> 12
      [] f = <<"normal", "line_spacing_pt">> -> 20
      [] f = <<"headings", "Heading 1", "size_pt">> -> 16
      [] f = <<"headings", "Heading 2", "size_pt">> -> 14
      [] f = <<"headings", "Heading 3", "size_pt">> -> 12
      [] f = <<"headings", "Heading 1", "align">> -> "CENTER"
      [] f \in {<<"headings", "Heading 2", "align">>,
                <<"headings", "Heading 3", "align">>} -> "LEFT"
      [] f[1] = "headings" /\ Key(f) = "family" -> "SimHei"
      [] f[1] = "headings" /\ Key(f) \in {"space_before_pt", "space_after_pt"}
           -> 12
      [] f = <<"header", "size_pt">> -> 9
      [] f = <<"header", "family">> ->
           IF Has(c, <<"normal", "chinese">>)
           THEN ValueAt(c, <<"normal", "chinese">>) ELSE "SimSun"
      [] f = <<"header", "text">> -> <<>>

\* the document d carries the value v for field f: lengths in EMU, the
\* header font and size on every run of the header, the header text as the
\* text of every run when no --header text takes its place
Carries(d, f, v) ==
    CASE f = <<"page", "width_mm">> -> d.section.page_width = Mm(v)
      [] f = <<"page", "height_mm">> -> d.section.page_height = Mm(v)
      [] f = <<"margins", "top_mm">> -> d.section.top_margin = Mm(v)
      [] f = <<"margins", "bottom_mm">> -> d.section.bottom_margin = Mm(v)
      [] f = <<"margins", "left_mm">> -> d.section.left_margin = Mm(v)
      [] f = <<"margins", "right_mm">> -> d.section.right_margin = Mm(v)
      [] f = <<"normal", "chinese">> -> d.normal.eastAsia = v
      [] f = <<"normal", "western">> -> d.normal.ascii = v /\ d.normal.hAnsi = v
      [] f = <<"normal", "size_pt">> -> d.normal.size = Pt(v)
      [] f = <<"normal", "line_spacing_pt">> -> d.normal.line_spacing = Pt(v)
      [] f[1] = "headings" /\ Key(f) = "family" -> d.headings[f[2]].name = v
      [] f[1] = "headings" /\ Key(f) = "size_pt" ->
           d.headings[f[2]].size = Pt(v)
      [] f[1] = "headings" /\ Key(f) = "align" ->
           d.headings[f[2]].alignment = v
      [] f[1] = "headings" /\ Key(f) = "space_before_pt" ->
           d.headings[f[2]].space_before = Pt(v)
      [] f[1] = "headings" /\ Key(f) = "space_after_pt" ->
           d.headings[f[2]].space_after = Pt(v)
      [] f = <<"header", "family">> ->
           \A k \in 1 .. Len(d.header) : d.header[k].name = v
      [] f = <<"header", "size_pt">> ->
           \A k \in 1 .. Len(d.header) : d.header[k].size = Pt(v)
      [] f = <<"header", "text">> ->
           IF Truthy(header_text) THEN TRUE
           ELSE IF v = <<>> THEN d.header = <<>>
           ELSE d.header # <<>>
                /\ \A k \in 1 .. Len(d.header) : d.header[k].text = v

\* C7: after _apply_doc_defaults every field is defined: every supplied field
\* is applied with exactly the supplied value, every other one with its
\* default.
C7_SuppliedExactly ==
    (pc \in {"style", "raised"} /\ applied >= 1) =>
        /\ ~fault
        /\ \A f \in Fields :
            Carries(doc, f, IF Has(CfgDict, f) THEN ValueAt(CfgDict, f)
                            ELSE DefaultOf(CfgDict, f))

SheetText == IF Has(CfgDict, <<"header", "text">>)
             THEN SomeStr(ValueAt(CfgDict, <<"header", "text">>)) ELSE NoneStr

\* the statement of C8 as the specification words it: a given --header text
\* is the text written
C8_OverrideGivenWins ==
    (pc = "style" /\ applied = 1) =>
        LET written == Concat([k \in 1 .. Len(doc.header) |->
                                  doc.header[k].text])
        IN  /\ header_text.given => written = header_text.text
            /\ (~header_text.given /\ SheetText.given) =>
                   written = SheetText.text
            /\ (~header_text.given /\ ~SheetText.given) => doc.header = <<>>

\* C8 (amended): a non-empty --header text is the text written to the
\* header, before the style sheet's; an absent or empty one leaves the
\* style sheet's header text to be written when that is non-empty; with
\* neither, the header gets no run.  A run written has the header font (the
\* body's chinese font unless one is configured) and the header size (9pt
\* unless configured), not the size of the body.
C8_HeaderText ==
    (pc = "style" /\ applied = 1) =>
        LET override == header_text.given /\ header_text.text # <<>>
            sheet == SheetText.given /\ SheetText.text # <<>>
        IN  /\ override => Len(doc.header) = 1
                           /\ doc.header[1].text = header_text.text
            /\ (~override /\ sheet) => Len(doc.header) = 1
                                       /\ doc.header[1].text = SheetText.text
            /\ (~override /\ ~sheet) => doc.header = <<>>
            /\ \A k \in 1 .. Len(doc.header) :
                 /\ doc.header[k].name =
                      (IF Has(CfgDict, <<"header", "family">>)
                       THEN ValueAt(CfgDict, <<"header", "family">>)
                       ELSE doc.normal.eastAsia)
                 /\ doc.header[k].size =
                      (IF Has(CfgDict, <<"header", "size_pt">>)
                       THEN Pt(ValueAt(CfgDict, <<"header", "size_pt">>))
                       ELSE Pt(9))

\* a --header text was written although the style sheet has a header text,
\* with the configured header size
C8_Witness ==
    /\ pc = "style"
    /\ applied = 1
    /\ header_text = SomeStr(<<"H">>)
    /\ SheetText = SomeStr(<<"C">>)
    /\ Has(CfgDict, <<"header", "size_pt">>)
    /\ doc.header = <<Run(<<"H">>, "SimSun", Pt(7))>>

\* the statement of C9 as the specification words it: the document after a
\* second call is the document after the first
C9_SecondCallChangesNothing ==
    (pc = "style" /\ applied >= 2) => doc = last

\* C9 (amended): a second call with the same style sheet and header text
\* leaves the section geometry, the body style and the three heading styles
\* as the first call set them; the header is not overwritten: every call
\* that has a header text appends one more run with that text, font and
\* size.
C9_StylesIdempotent ==
    (pc = "style" /\ applied >= 2) =>
        /\ doc.section = last.section
        /\ doc.normal = last.normal
        /\ doc.headings = last.headings
        /\ doc.body = last.body
        /\ IF Truthy(header_text) \/ Truthy(SheetText)
           THEN /\ Len(doc.header) = applied
                /\ Len(last.header) = applied - 1
                /\ \A k \in 1 .. applied : doc.header[k] = doc.header[1]
           ELSE doc.header = <<>> /\ last.header = <<>>

\* two calls with a header text and a configured margin were made
C9_Witness ==
    /\ pc = "style"
    /\ applied = 2
    /\ header_text = SomeStr(<<"H">>)
    /\ Has(CfgDict, <<"margins", "top_mm">>)
    /\ doc.section.top_margin = Mm(150)
    /\ Len(doc.header) = 2

----------------------------------------------------------------------------
(* main.  env is what the run finds: the input file, the -o argument, the  *)
(* --config file, the installed tools and what they do.  steps lists the   *)
(* calls made, in order.                                                   *)

Outputs == {"none", "out.docx", "out.doc", "out.DOC", "out.txt"}

ConfigKinds == {"none", "missing", "unreadable", "malformed", "valid"}

FailedKinds == {"missing", "unreadable", "malformed"}

\* what a valid configuration file holds
ConfigValues ==
    {EmptyDict, Nested((<<"margins", "top_mm">> :> 150))}

\* the input files of main, named by their markdown text with "." for a
\* line break
Inputs == {"", "# T..a", "- x", "> q..---..~~~.x.~~~..<div>"}

\* md.parse(text) for the input files: the token stream of markdown-it
InputTokens(text) ==
    CASE text = "" -> <<>>
      [] text = "# T..a" ->
           <<Tok("heading_open", HeadingTag(1), <<>>, <<>>),
             TextInline(<<"T">>),
             Tok("heading_close", HeadingTag(1), <<>>, <<>>),
             Plain("paragraph_open"), TextInline(<<"a">>),
             Plain("paragraph_close")>>
      [] text = "- x" ->
           <<Plain("bullet_list_open"), Plain("list_item_open"),
             Plain("paragraph_open"), TextInline(<<"x">>),
             Plain("paragraph_close"), Plain("list_item_close"),
             Plain("bullet_list_close")>>
      [] text = "> q..---..~~~.x.~~~..<div>" ->
           <<Plain("blockquote_open"), Plain("paragraph_open"),
             TextInline(<<"q">>), Plain("paragraph_close"),
             Plain("blockquote_close"), Plain("hr"),
             Tok("fence", <<>>, FenceSample, <<>>),
             Tok("html_block", <<>>, <<"<", ">">>, <<>>)>>

Envs ==
    [input_exists : BOOLEAN,
     input : Inputs,
     output : Outputs,
     config : ConfigKinds,
     config_value : ConfigValues,
     pypandoc : BOOLEAN,
     pandoc : BOOLEAN,
     convert_file : {"ok", "raises", "empty"},
     fallback : {"ok", "raises"},
     soffice : {"absent", "fails", "no_output", "ok"},
     stale_doc : BOOLEAN]

\* os.path.splitext(output_path)[1].lower(), ".docx" without -o
OutExt(output) ==
    CASE output = "none" -> ".docx"
      [] output = "out.docx" -> ".docx"
      [] output \in {"out.doc", "out.DOC"} -> ".doc"
      [] output = "out.txt" -> ".txt"

\* _load_config(args.config): the value returned, whether a message was
\* printed, and whether an exception left the function
LoadConfigUncaught(e) ==
    CASE e.config = "none" -> [cfg |-> NoneCfg, warned |-> FALSE, raised |-> FALSE]
      [] e.config = "missing" ->
           [cfg |-> NoneCfg, warned |-> TRUE, raised |-> FALSE]
      [] e.config \in {"unreadable", "malformed"} ->
           [cfg |-> NoneCfg, warned |-> FALSE, raised |-> TRUE]
      [] e.config = "valid" ->
           [cfg |-> SomeCfg(e.config_value), warned |-> FALSE, raised |-> FALSE]
LoadConfig(e) ==
    CASE e.config = "none" -> [cfg |-> NoneCfg, warned |-> FALSE, raised |-> FALSE]
      [] e.config = "missing" ->
           [cfg |-> NoneCfg, warned |-> TRUE, raised |-> FALSE]
      [] e.config \in {"unreadable", "malformed"} ->
           [cfg |-> NoneCfg, warned |-> TRUE, raised |-> FALSE]
      [] e.config = "valid" ->
           [cfg |-> SomeCfg(e.config_value), warned |-> FALSE, raised |-> FALSE]

Log(entries) == steps' = steps \o entries

Return(code) == exit_code' = code /\ pc' = "exit"

MainFrame == UNCHANGED <<tokens, ctx, i, list_stack, fault, last, header_text,
                         applied, WD_ALIGN_PARAGRAPH, env>>

InitMain ==
    /\ InitCommon
    /\ InitNoAlign
    /\ tokens = <<>>
    /\ ctx = <<>>
    /\ pc = "main"
    /\ cfg = NoneCfg
    /\ header_text = NoneStr
    /\ env \in Envs

\* lines 374-378
CheckInput ==
    /\ pc = "main"
    /\ IF env.input_exists
       THEN pc' = "output" /\ UNCHANGED exit_code
       ELSE Return(2)
    /\ UNCHANGED <<doc, cfg, steps, locals>>
    /\ MainFrame

\* lines 380-396
CheckOutput ==
    /\ pc = "output"
    /\ locals' = [locals EXCEPT !.out_ext = OutExt(env.output)]
    /\ IF OutExt(env.output) \in {".docx", ".doc"}
       THEN pc' = "load_config" /\ UNCHANGED exit_code
       ELSE Return(2)
    /\ UNCHANGED <<doc, cfg, steps>>
    /\ MainFrame

\* line 399
MainLoadConfig ==
    /\ pc = "load_config"
    /\ LET r == LoadConfig(env)
       IN  /\ cfg' = r.cfg
           /\ Log(<<"load_config">>
                  \o (IF r.warned THEN <<"warn_config">> ELSE <<>>))
           /\ IF r.raised
              THEN Return(1)
              ELSE pc' = "pandoc" /\ UNCHANGED exit_code
    /\ UNCHANGED <<doc, locals>>
    /\ MainFrame

\* lines 130-136: without pypandoc or pandoc, convert_with_pandoc is False
PandocAvailable ==
    /\ pc = "pandoc"
    /\ Log(<<"import_pypandoc">>
           \o (IF env.pypandoc THEN <<"which_pandoc">> ELSE <<>>))
    /\ pc' = IF env.pypandoc /\ env.pandoc THEN "reference" ELSE "fallback"
    /\ UNCHANGED <<doc, cfg, exit_code, locals>>
    /\ MainFrame

\* _create_reference_docx: a new document, styled, with one empty paragraph
\* added so that the styles are written
CreateReferenceDocx(header_text_, cfg_) ==
    LET d == ApplyDocDefaults(Document, header_text_, cfg_)
    IN  [d EXCEPT !.body = Append(d.body, AddParagraph(<<>>, "Normal"))]

\* lines 139-141: inside the with block, reference.docx is written into the
\* temporary directory
PandocReference ==
    /\ pc = "reference"
    /\ doc' = CreateReferenceDocx(header_text, cfg)
    /\ applied' = applied + 1
    /\ Log(<<"create_reference">>)
    /\ locals' = [locals EXCEPT !.ref_exists = TRUE]
    /\ pc' = "with_exit"
    /\ UNCHANGED <<tokens, ctx, i, list_stack, fault, last, cfg, header_text,
                   WD_ALIGN_PARAGRAPH, env, exit_code>>

\* line 141 is the last line of the with block: TemporaryDirectory.__exit__
\* removes the directory and the reference.docx in it
PandocTempdirExit ==
    /\ pc = "with_exit"
    /\ Log(<<"remove_tempdir">>)
    /\ locals' = [locals EXCEPT !.ref_exists = FALSE]
    /\ pc' = "convert_file"
    /\ UNCHANGED <<doc, cfg, exit_code>>
    /\ MainFrame

\* a variant that runs the fallback renderer whatever pandoc returned
PandocConvertThenFallback ==
    /\ pc = "convert_file"
    /\ Log(<<"convert_file">>)
    /\ locals' = [locals EXCEPT !.ok = (env.convert_file = "ok")]
    /\ pc' = "fallback"
    /\ UNCHANGED <<doc, cfg, exit_code>>
    /\ MainFrame

\* lines 142-155
PandocConvert ==
    /\ pc = "convert_file"
    /\ Log(<<"convert_file">>)
    /\ locals' = [locals EXCEPT !.ok = (env.convert_file = "ok")]
    /\ pc' = IF env.convert_file = "ok" THEN "post" ELSE "fallback"
    /\ UNCHANGED <<doc, cfg, exit_code>>
    /\ MainFrame

\* lines 403-406 and 158-174: main calls the fallback renderer, which raises
\* (the exception is caught at line 408) or reads the input and parses it;
\* the walk of the token stream follows
MainFallback ==
    /\ pc = "fallback"
    /\ Log(<<"fallback">>)
    /\ IF env.fallback = "ok"
       THEN /\ tokens' = InputTokens(env.input)
            /\ pc' = "parse"
            /\ UNCHANGED exit_code
       ELSE /\ Return(1)
            /\ UNCHANGED tokens
    /\ UNCHANGED <<ctx, i, list_stack, doc, fault, last, styleVars,
                   WD_ALIGN_PARAGRAPH, env, locals>>

\* lines 295-296 and 407: the walk has ended, the document is saved and the
\* fallback renderer returns to main
MainFallbackDone ==
    /\ pc = "done"
    /\ env # NoEnv
    /\ locals' = [locals EXCEPT !.ok = TRUE]
    /\ pc' = "post"
    /\ UNCHANGED <<doc, cfg, steps, exit_code>>
    /\ MainFrame

\* convert_docx_to_doc_with_libreoffice: False without soffice and when
\* soffice exits with an error; otherwise os.path.exists(output_doc), which
\* is true when soffice wrote the file and also when it wrote nothing and the
\* file was there before the run
ConvertDocxToDoc(e) ==
    CASE e.soffice = "absent" -> FALSE
      [] e.soffice = "fails" -> FALSE
      [] e.soffice = "no_output" -> e.stale_doc
      [] e.soffice = "ok" -> TRUE

\* lines 412-422 and convert_docx_to_doc_with_libreoffice
MainPost ==
    /\ pc = "post"
    /\ IF locals.out_ext = ".doc"
       THEN /\ Log(<<"which_soffice">>
                   \o (IF env.soffice = "absent" THEN <<>> ELSE <<"soffice">>))
            /\ Return(IF ConvertDocxToDoc(env) THEN 0 ELSE 3)
       ELSE /\ Return(0)
            /\ UNCHANGED steps
    /\ UNCHANGED <<doc, cfg, locals>>
    /\ MainFrame

NextMain ==
    \/ CheckInput
    \/ CheckOutput
    \/ MainLoadConfig
    \/ PandocAvailable
    \/ PandocReference
    \/ PandocTempdirExit
    \/ PandocConvert
    \/ MainFallback
    \/ StartWalk
    \/ Walk
    \/ MainFallbackDone
    \/ MainPost

SpecMain == InitMain /\ [][NextMain]_vars

----------------------------------------------------------------------------
(* Properties of the configuration loader in main.                         *)

ConverterSteps == {"create_reference", "convert_file", "fallback", "soffice"}

\* what a run without --config does in the environment e: the converter
\* steps it makes and the status it returns
WithoutConfig(e) ==
    LET pandoc_ok == e.pypandoc /\ e.pandoc /\ e.convert_file = "ok"
        docx == pandoc_ok \/ e.fallback = "ok"
        wants_doc == OutExt(e.output) = ".doc"
    IN  [steps |->
            (IF e.pypandoc /\ e.pandoc
             THEN <<"create_reference", "convert_file">> ELSE <<>>)
            \o (IF pandoc_ok THEN <<>> ELSE <<"fallback">>)
            \o (IF docx /\ wants_doc /\ e.soffice # "absent"
                THEN <<"soffice">> ELSE <<>>),
         status |-> IF ~docx THEN 1
                    ELSE IF wants_doc /\ ~ConvertDocxToDoc(e) THEN 3 ELSE 0]

\* C10: a configuration that cannot be loaded (missing, unreadable or
\* malformed file) is reported and yields an absent configuration; main goes
\* on and makes the same converter steps and returns the same status as a
\* run without --config in the same environment.
C10_ConfigFailureNotFatal ==
    (env.config \in FailedKinds \cup {"none"}
     /\ pc \notin {"main", "output", "load_config"}
     /\ locals.out_ext \in {".docx", ".doc"}) =>
        /\ cfg = NoneCfg
        /\ env.config \in FailedKinds =>
             SelectSeq(steps, LAMBDA x : x \in {"load_config", "warn_config"})
                 = <<"load_config", "warn_config">>
        /\ pc = "exit" =>
             /\ SelectSeq(steps, LAMBDA x : x \in ConverterSteps)
                    = WithoutConfig(env).steps
             /\ exit_code = WithoutConfig(env).status

\* a run with a malformed configuration file ended with the fallback
\* renderer's document and status 0
C10_Witness ==
    /\ pc = "exit"
    /\ env.config = "malformed"
    /\ cfg = NoneCfg
    /\ "warn_config" \in {steps[k] : k \in 1 .. Len(steps)}
    /\ steps[Len(steps)] = "fallback"
    /\ exit_code = 0

----------------------------------------------------------------------------
(* Properties of main: the order of the steps and the exit status.         *)

\* the positions of a step in the log
Positions(name) == {k \in 1 .. Len(steps) : steps[k] = name}

\* every occurrence of b in the log has an occurrence of a before it
Precedes(a, b) ==
    \A k \in Positions(b) : \E j \in Positions(a) : j < k

\* convert_with_pandoc returns True in the environment e
PandocOk(e) == e.pypandoc /\ e.pandoc /\ e.convert_file = "ok"

\* a .docx is produced in the environment e
DocxProduced(e) == PandocOk(e) \/ e.fallback = "ok"

\* C11: the steps of main are ordered. The pandoc path is attempted first
\* and the fallback renderer runs at most once and only when the pandoc path
\* did not succeed; LibreOffice is looked up and invoked only for a .doc
\* output and only after a .docx was produced (by pandoc, or by the fallback
\* that ran before it), never in a run that returns 1.
C11_StepsOrdered ==
    /\ Precedes("import_pypandoc", "fallback")
    /\ Precedes("import_pypandoc", "convert_file")
    /\ Cardinality(Positions("fallback")) <= 1
    /\ Positions("fallback") # {} =>
         /\ ~PandocOk(env)
         /\ (env.pypandoc /\ env.pandoc) => Precedes("convert_file", "fallback")
    /\ \A s \in {"which_soffice", "soffice"} :
         Positions(s) # {} =>
            /\ locals.out_ext = ".doc"
            /\ locals.ok
            /\ DocxProduced(env)
            /\ exit_code # 1
            /\ IF PandocOk(env)
               THEN Precedes("convert_file", s)
               ELSE Precedes("fallback", s)
    /\ Precedes("which_soffice", "soffice")

\* a run for a .doc output in which pandoc failed, the fallback renderer
\* made the .docx and LibreOffice was invoked after it
C11_Witness ==
    /\ pc = "exit"
    /\ locals.out_ext = ".doc"
    /\ Positions("convert_file") # {}
    /\ Positions("fallback") # {}
    /\ Positions("soffice") # {}
    /\ steps[Len(steps)] = "soffice"

\* C17: the reference .docx exists when pandoc is invoked with
\* --reference-doc: its temporary directory is not removed before the
\* conversion call.
C17_ReferenceExistsAtPandoc ==
    /\ pc = "convert_file" => locals.ref_exists
    /\ \A k \in Positions("convert_file") :
         \A j \in Positions("remove_tempdir") : k < j

\* main rejects the arguments in the environment e
Rejected(e) == ~e.input_exists \/ OutExt(e.output) \notin {".docx", ".doc"}

\* C18: the exit status names the stage that failed. 2, with no
\* configuration loaded and no converter invoked, when the input is missing
\* or the extension is neither .docx nor .doc; 1 when pandoc did not succeed
\* and the fallback raised; 3 when .doc was requested, a .docx was produced
\* and the LibreOffice step did not produce the .doc; 0 only when the
\* requested output was produced.
C18_ExitStatus ==
    pc = "exit" =>
        /\ exit_code \in {0, 1, 2, 3}
        /\ exit_code = 2 <=> Rejected(env)
        /\ exit_code = 2 => steps = <<>> /\ cfg = NoneCfg
        /\ exit_code = 1 <=> (~Rejected(env) /\ ~DocxProduced(env))
        /\ exit_code = 3 <=>
              (~Rejected(env) /\ DocxProduced(env)
               /\ OutExt(env.output) = ".doc" /\ env.soffice # "ok")
        /\ exit_code = 0 =>
              /\ DocxProduced(env)
              /\ OutExt(env.output) = ".doc" => env.soffice = "ok"

====
